---- MODULE Spec2Model ----
(***************************************************************************)
(* The worker-process orchestrator of Horizon-Server: class WorkerManager  *)
(* of src/src/services/WorkflowHistoryService.ts (lines 576-1221).         *)
(*                                                                         *)
(* The host runs on one JavaScript thread: every action below is one       *)
(* callback turn together with the promise continuations (microtasks) it   *)
(* releases.  Subprocess events ('spawn', 'error', 'exit', 'message') and  *)
(* timers arrive in any order.                                             *)
(***************************************************************************)
EXTENDS Integers, FiniteSets, Sequences, TLC

\* ------------------------------------------------------------------ bounds
MaxWorkers == 2        \* createWorker calls (one fresh uuid each)
MaxPorts == 2          \* longest port range examined (the code's holds 1000)
NumCommands == 2       \* launch candidates in the list trySpawnWorker builds
MaxRequests == 2       \* accepted sendRequestToWorker calls
MaxStops == 2          \* accepted stopWorker calls
MaxFaults == 1         \* post-start faults handled per worker
MaxOps == 4            \* calls taken up and faults handled in one run
MaxHostRequests == 1   \* worker-originated requests served in one run
MaxStats == 1          \* stats updates applied to one worker

\* ------------------------------------------------------- program constants
PortStart == 3001

Ids == 1..MaxWorkers
ReqIds == 1..MaxRequests
StopIds == 1..MaxStops
HostReqIds == 1..MaxHostRequests
Payloads == {"d1", "d2"}

VARIABLES
    portRange,        \* WorkerManager.portRange: [start, end]
    usedPorts,        \* WorkerManager.usedPorts
    workers,          \* keys of WorkerManager.workers (the registry)
    info,             \* the WorkerInfo object of each id: [status, port]
    pendingRequests,  \* each worker entry's pendingRequests map (its keys)
    createCall,       \* each createWorker call: [pc, err, cur, launch]
    process,          \* each id's subprocess: its state, and what was sent to it
    requests,         \* each sendRequestToWorker promise and its timer
    stops,            \* each stopWorker call waiting for exit, and its timer
    events,           \* events emitted per worker, by name
    ret,              \* the result of the call that returned in the last step
    host,             \* the host process and its shutdown (setupCleanup)
    hostReq,          \* each worker-originated request being served
    usage,            \* each WorkerInfo's memoryUsage and cpuUsage, and how
                      \* often a stats update set its lastActivity
    workflowId        \* the workflowId field of each WorkerInfo

\* The part of the state that the operations of the life cycle (createWorker,
\* stopWorker, sendRequestToWorker and the subprocess events) leave alone.
ext == <<host, hostReq, usage, workflowId>>

vars == <<portRange, usedPorts, workers, info, pendingRequests,
          createCall, process, requests, stops, events, ret,
          host, hostReq, usage, workflowId>>

None == [op |-> "none", id |-> 0, val |-> "none"]

NoInfo == [status |-> "none", port |-> 0]
NoCall == [pc |-> "idle", err |-> "none", cur |-> 0, launch |-> "none"]
NoProcess == [state |-> "none", ready |-> FALSE, sent |-> 0, shutdowns |-> 0,
              killed |-> FALSE]
NoRequest == [worker |-> 0, state |-> "unused", result |-> "none", timer |-> FALSE]
NoStop == [worker |-> 0, state |-> "unused", timer |-> FALSE, result |-> "none"]
NoEvents == [created |-> 0, ready |-> 0, error |-> 0, exit |-> 0, stopped |-> 0,
             statsUpdated |-> 0]
NoHost == [state |-> "up", targets |-> {}, batches |-> {}]
NoResponse == [requestId |-> 0, success |-> FALSE, message |-> "none"]
NoHostReq == [worker |-> 0, route |-> "none", state |-> "unused",
              response |-> NoResponse, sent |-> 0]
NoUsage == [memoryUsage |-> "none", cpuUsage |-> "none", updates |-> 0]
Workflows == {"w1", "w2"}

Init ==
    /\ portRange \in {[start |-> PortStart, end |-> e] :
                        e \in PortStart..(PortStart + MaxPorts - 1)}
    /\ usedPorts = {}
    /\ workers = {}
    /\ info = [i \in Ids |-> NoInfo]
    /\ pendingRequests = [i \in Ids |-> {}]
    /\ createCall = [i \in Ids |-> NoCall]
    /\ process = [i \in Ids |-> NoProcess]
    /\ requests = [r \in ReqIds |-> NoRequest]
    /\ stops = [s \in StopIds |-> NoStop]
    /\ events = [i \in Ids |-> NoEvents]
    /\ ret = None
    /\ host = NoHost
    /\ hostReq = [q \in HostReqIds |-> NoHostReq]
    /\ usage = [i \in Ids |-> NoUsage]
    /\ workflowId = [i \in Ids |-> "w1"]

\* ------------------------------------------------------------ run length
RECURSIVE Sum(_, _)
Sum(f, S) == IF S = {} THEN 0
             ELSE LET x == CHOOSE y \in S : TRUE IN f[x] + Sum(f, S \ {x})

\* The calls taken up so far (createWorker, sendRequestToWorker, stopWorker),
\* the faults handled and the worker requests served; a run is cut off at
\* MaxOps of them.
Ops ==
    Cardinality({i \in Ids : createCall[i].pc # "idle"})
    + Cardinality({r \in ReqIds : requests[r].state # "unused"})
    + Cardinality({s \in StopIds : stops[s].state # "unused"})
    + Sum([i \in Ids |-> events[i].error], Ids)
    + Cardinality({q \in HostReqIds : hostReq[q].state # "unused"})
    + Sum([i \in Ids |-> usage[i].updates], Ids)

\* ---------------------------------------------------------- port allocator
FreePorts == {p \in portRange.start..portRange.end : p \notin usedPorts}

Min(S) == CHOOSE x \in S : \A y \in S : x <= y

\* The loop of getAvailablePort from port on (lines 1019-1024), 0 for null.
RECURSIVE scanPorts(_)
scanPorts(port) ==
    IF port > portRange.end THEN 0
    ELSE IF port \notin usedPorts THEN port
    ELSE scanPorts(port + 1)

\* A search that returns the highest free port of the range.
getAvailablePort_FromEnd ==
    IF FreePorts = {} THEN 0
    ELSE CHOOSE p \in FreePorts : \A q \in FreePorts : q <= p

\* getAvailablePort: the first port of the range, in ascending order, that
\* is not in usedPorts.
getAvailablePort == scanPorts(portRange.start)

\* ------------------------------------------------------------------ events
emit(ev, name, i) == [ev EXCEPT ![i][name] = @ + 1]

\* ------------------------------------------------- createWorker and launch
\* What child_process.spawn gives for one candidate: a process with a pid
\* ("ok", its 'spawn' event follows), or no pid and an 'error' event to come,
\* with code ENOENT ("enoent") or another code ("eother").
Launches == {"ok", "enoent", "eother"}

\* trySpawnWorker(retryCount = k): spawn candidate k of call i, outcome l.
\* Candidates are tried one after the other, so a call has at most one live
\* process of its own at any time.
\* The throw of line 907 needs retryCount >= commands.length; the only
\* recursive call (line 932) is made with retryCount + 1 <= length - 1, so
\* k < NumCommands at every call and that throw is never taken.
trySpawnWorker(i, k, l) ==
    /\ createCall' = [createCall EXCEPT ![i].cur = k, ![i].launch = l,
                         ![i].pc = IF k = 0 THEN "spawning" ELSE @]
    /\ process' = [process EXCEPT ![i].state = IF l = "ok" THEN "alive" ELSE @]

\* createWorker up to its await: the port is read from the pool here and is
\* added to usedPorts only after the spawn has been confirmed (OnSpawn).
createWorker(i) ==
    /\ Ops < MaxOps
    /\ createCall[i].pc = "idle"
    /\ \A j \in Ids : j < i => createCall[j].pc # "idle"
    /\ LET port == getAvailablePort IN
       IF port = 0
       THEN /\ createCall' = [createCall EXCEPT ![i].pc = "threw",
                                                ![i].err = "NoPorts"]
            /\ ret' = [op |-> "createWorker", id |-> i, val |-> "NoPorts"]
            /\ UNCHANGED <<info, process>>
       ELSE /\ info' = [info EXCEPT ![i] = [status |-> "starting", port |-> port]]
            /\ \E l \in Launches : trySpawnWorker(i, 0, l)
            /\ ret' = None
    /\ UNCHANGED <<portRange, usedPorts, workers, pendingRequests,
                   requests, stops, events>>

\* The catch block of createWorker (lines 641-645), run when the promise of
\* trySpawnWorker(.., 0) rejects with error e while the call still awaits it;
\* l is what remains of the current candidate's launch.
createWorkerCatch(i, e, l) ==
    /\ usedPorts' = usedPorts \ {info[i].port}
    /\ info' = [info EXCEPT ![i].status = "error"]
    /\ createCall' = [createCall EXCEPT ![i].pc = "threw", ![i].err = e,
                                        ![i].launch = l]

\* The rest of createWorker once spawnWorkerProcess has resolved (lines
\* 624-640): the entry is registered with status 'running' and the port is
\* reserved.
createWorkerResume(i) ==
    /\ info' = [info EXCEPT ![i].status = "running"]
    /\ workers' = workers \cup {i}
    /\ usedPorts' = usedPorts \cup {info[i].port}
    /\ events' = emit(events, "created", i)
    /\ createCall' = [createCall EXCEPT ![i].pc = "returned",
                                        ![i].launch = "spawned"]

\* 'spawn' event of the current candidate's process.  If the call has been
\* rejected by an earlier candidate's timer, the resolve is lost and the
\* process runs on with no handler attached.
OnSpawn(i) ==
    /\ createCall[i].launch = "ok"
    /\ IF createCall[i].pc = "spawning"
       THEN createWorkerResume(i)
       ELSE /\ createCall' = [createCall EXCEPT ![i].launch = "spawned"]
            /\ UNCHANGED <<info, workers, usedPorts, events>>
    /\ ret' = None
    /\ UNCHANGED <<portRange, pendingRequests, process, requests, stops>>

\* 'error' event of the current candidate (lines 928-940): ENOENT moves on to
\* the next candidate unless this was the last one; any other error, and
\* ENOENT of the last candidate, rejects with that error.
OnSpawnError(i) ==
    /\ createCall[i].launch \in {"enoent", "eother"}
    /\ IF createCall[i].launch = "enoent" /\ createCall[i].cur < NumCommands - 1
       THEN /\ \E l \in Launches : trySpawnWorker(i, createCall[i].cur + 1, l)
            /\ UNCHANGED <<info, usedPorts>>
       ELSE IF createCall[i].pc = "spawning"
            THEN /\ createWorkerCatch(i, createCall[i].launch, "failed")
                 /\ UNCHANGED process
            ELSE /\ createCall' = [createCall EXCEPT ![i].launch = "failed"]
                 /\ UNCHANGED <<info, usedPorts, process>>
    /\ ret' = None
    /\ UNCHANGED <<portRange, workers, pendingRequests, requests,
                   stops, events>>

\* A spawn timer that fires and rejects nothing.
OnSpawnTimeout_NoReject(i) ==
    /\ createCall[i].pc = "spawning"
    /\ createCall[i].cur > 0 \/ createCall[i].launch \in {"enoent", "eother"}
    /\ ret' = None
    /\ UNCHANGED <<portRange, usedPorts, workers, info, pendingRequests,
                   createCall, process, requests, stops, events>>

\* The 5 s timer of a candidate whose process has no pid (lines 949-953): it
\* rejects the candidate's promise, and with it the call if it still waits.
\* A candidate has no pid when its launch failed: every candidate before the
\* current one, and the current one unless its launch was "ok".  The timer of
\* a candidate with a pid does nothing and is not a step.
OnSpawnTimeout(i) ==
    /\ createCall[i].pc = "spawning"
    /\ createCall[i].cur > 0 \/ createCall[i].launch \in {"enoent", "eother"}
    /\ createWorkerCatch(i, "Timeout", createCall[i].launch)
    /\ ret' = None
    /\ UNCHANGED <<portRange, workers, pendingRequests, process,
                   requests, stops, events>>

\* ------------------------------------------------------ request correlator
\* A promise keeps its first settlement: resolve and reject after it are
\* without effect.
settle(req, st, res) ==
    IF req.state = "pending" THEN [req EXCEPT !.state = st, !.result = res]
    ELSE req

\* A continuation that settles the promise and leaves its timer running.
callback_KeepTimer(req, m) ==
    settle(req, IF m.success THEN "resolved" ELSE "rejected",
                IF m.success THEN m.data ELSE m.message)

\* The continuation registered at lines 704-711, called with a message m =
\* [success, data, message]: it clears the request's timer and resolves with
\* the data or rejects with the message.
callback(req, m) ==
    [settle(req, IF m.success THEN "resolved" ELSE "rejected",
                 IF m.success THEN m.data ELSE m.message)
        EXCEPT !.timer = FALSE]

\* sendRequestToWorker that looks the id up and does not test the status.
sendRequestToWorker_AnyStatus(i, r) ==
    /\ requests[r].state = "unused"
    /\ \A q \in ReqIds : q < r => requests[q].state # "unused"
    /\ IF i \notin workers
       THEN /\ ret' = [op |-> "sendRequestToWorker", id |-> i,
                       val |-> "NotAvailable"]
            /\ UNCHANGED <<requests, pendingRequests, process>>
       ELSE /\ Ops < MaxOps
            /\ requests' = [requests EXCEPT ![r] =
                   [worker |-> i, state |-> "pending", result |-> "none",
                    timer |-> TRUE]]
            /\ pendingRequests' = [pendingRequests EXCEPT ![i] = @ \cup {r}]
            /\ process' = [process EXCEPT ![i].sent = @ + 1]
            /\ ret' = None
    /\ UNCHANGED <<portRange, usedPorts, workers, info, createCall, stops,
                   events>>

\* sendRequestToWorker(i, ..) taking request id r.  A call for an id that is
\* not registered or not 'running' throws before anything is registered.
sendRequestToWorker(i, r) ==
    /\ requests[r].state = "unused"
    /\ \A q \in ReqIds : q < r => requests[q].state # "unused"
    /\ IF i \notin workers \/ info[i].status # "running"
       THEN /\ ret' = [op |-> "sendRequestToWorker", id |-> i,
                       val |-> "NotAvailable"]
            /\ UNCHANGED <<requests, pendingRequests, process>>
       ELSE /\ Ops < MaxOps
            /\ requests' = [requests EXCEPT ![r] =
                   [worker |-> i, state |-> "pending", result |-> "none",
                    timer |-> TRUE]]
            /\ pendingRequests' = [pendingRequests EXCEPT ![i] = @ \cup {r}]
            /\ process' = [process EXCEPT ![i].sent = @ + 1]
            /\ ret' = None
    /\ UNCHANGED <<portRange, usedPorts, workers, info, createCall, stops,
                   events>>

\* A request timer that rejects and leaves the entry in the map.
OnRequestTimeout_KeepEntry(r) ==
    /\ requests[r].timer
    /\ requests' = [requests EXCEPT ![r] =
           [settle(@, "rejected", "Timeout") EXCEPT !.timer = FALSE]]
    /\ ret' = None
    /\ UNCHANGED <<portRange, usedPorts, workers, info, pendingRequests,
                   createCall, process, stops, events>>

\* A request timer that deletes the entry and does not reject.
OnRequestTimeout_NoReject(r) ==
    /\ requests[r].timer
    /\ pendingRequests' = [pendingRequests EXCEPT ![requests[r].worker] = @ \ {r}]
    /\ requests' = [requests EXCEPT ![r].timer = FALSE]
    /\ ret' = None
    /\ UNCHANGED <<portRange, usedPorts, workers, info, createCall,
                   process, stops, events>>

\* The 30 s timer of request r (lines 699-702): the entry is deleted from the
\* map of the worker object the call captured, and the promise rejected.
OnRequestTimeout(r) ==
    /\ requests[r].timer
    /\ pendingRequests' = [pendingRequests EXCEPT ![requests[r].worker] = @ \ {r}]
    /\ requests' = [requests EXCEPT ![r] =
           [settle(@, "rejected", "Timeout") EXCEPT !.timer = FALSE]]
    /\ ret' = None
    /\ UNCHANGED <<portRange, usedPorts, workers, info, createCall,
                   process, stops, events>>

\* ----------------------------------------------------------- finalization
\* cleanupWorker that clears the map without calling the continuations.
cleanupWorker_NoReject(i) ==
    IF i \in workers
    THEN /\ usedPorts' = usedPorts \ {info[i].port}
         /\ info' = [info EXCEPT ![i].status = "stopped"]
         /\ pendingRequests' = [pendingRequests EXCEPT ![i] = {}]
         /\ workers' = workers \ {i}
         /\ UNCHANGED requests
    ELSE UNCHANGED <<usedPorts, info, requests, pendingRequests, workers>>

\* cleanupWorker that does not test whether the id is still registered.
cleanupWorker_NoGuard(i) ==
    /\ usedPorts' = usedPorts \ {info[i].port}
    /\ info' = [info EXCEPT ![i].status = "stopped"]
    /\ requests' = [r \in ReqIds |->
           IF r \in pendingRequests[i]
           THEN callback(requests[r], [success |-> FALSE, data |-> "none",
                                       message |-> "WorkerStopped"])
           ELSE requests[r]]
    /\ pendingRequests' = [pendingRequests EXCEPT ![i] = {}]
    /\ workers' = workers \ {i}

\* cleanupWorker(i): for a registered id, releases the port, marks the info
\* 'stopped', calls every pending continuation with 'Worker stopped', clears
\* the map and removes the entry; for any other id it does nothing.
cleanupWorker(i) ==
    IF i \in workers
    THEN /\ usedPorts' = usedPorts \ {info[i].port}
         /\ info' = [info EXCEPT ![i].status = "stopped"]
         /\ requests' = [r \in ReqIds |->
                IF r \in pendingRequests[i]
                THEN callback(requests[r], [success |-> FALSE, data |-> "none",
                                            message |-> "WorkerStopped"])
                ELSE requests[r]]
         /\ pendingRequests' = [pendingRequests EXCEPT ![i] = {}]
         /\ workers' = workers \ {i}
    ELSE UNCHANGED <<usedPorts, info, requests, pendingRequests, workers>>

\* ------------------------------------------------- messages from a worker
\* What a subprocess may send: 'ready', 'error', and a 'response' with any
\* request id, successful with a payload or failed with a message.
Messages ==
    {[type |-> "ready"], [type |-> "error"]}
    \cup {[type |-> "response", requestId |-> r, success |-> TRUE,
           data |-> d, message |-> "none"] : r \in ReqIds, d \in Payloads}
    \cup {[type |-> "response", requestId |-> r, success |-> FALSE,
           data |-> "none", message |-> "Failed"] : r \in ReqIds}

\* handleWorkerError without the look-up in the registry.
handleWorkerError_NoLookup(i) ==
    /\ info' = [info EXCEPT ![i].status = "error"]
    /\ events' = emit(events, "error", i)

\* handleWorkerError(i): a registered worker is marked 'error' and
\* 'worker:error' is emitted; nothing else is touched.
handleWorkerError(i) ==
    IF i \in workers
    THEN /\ info' = [info EXCEPT ![i].status = "error"]
         /\ events' = emit(events, "error", i)
    ELSE UNCHANGED <<info, events>>

\* handleWorkerMessage that hands a response to the oldest pending request of
\* the worker, whatever its requestId.
handleWorkerMessage_AnyPending(i, m) ==
    IF i \notin workers
    THEN UNCHANGED <<info, events, requests, pendingRequests>>
    ELSE CASE m.type = "response" ->
                /\ IF pendingRequests[i] # {}
                   THEN /\ requests' = [requests EXCEPT
                               ![Min(pendingRequests[i])] = callback(@, m)]
                        /\ pendingRequests' = [pendingRequests EXCEPT
                               ![i] = @ \ {Min(pendingRequests[i])}]
                   ELSE UNCHANGED <<requests, pendingRequests>>
                /\ UNCHANGED <<info, events>>
           [] m.type = "ready" ->
                /\ info' = [info EXCEPT ![i].status = "running"]
                /\ events' = emit(events, "ready", i)
                /\ UNCHANGED <<requests, pendingRequests>>
           [] m.type = "error" ->
                /\ handleWorkerError(i)
                /\ UNCHANGED <<requests, pendingRequests>>

\* handleWorkerMessage without the look-up in the registry.
handleWorkerMessage_NoLookup(i, m) ==
    CASE m.type = "response" ->
            /\ IF m.requestId \in pendingRequests[i]
               THEN /\ requests' = [requests EXCEPT
                           ![m.requestId] = callback(@, m)]
                    /\ pendingRequests' = [pendingRequests EXCEPT
                           ![i] = @ \ {m.requestId}]
               ELSE UNCHANGED <<requests, pendingRequests>>
            /\ UNCHANGED <<info, events>>
      [] m.type = "ready" ->
            /\ info' = [info EXCEPT ![i].status = "running"]
            /\ events' = emit(events, "ready", i)
            /\ UNCHANGED <<requests, pendingRequests>>
      [] m.type = "error" ->
            /\ handleWorkerError(i)
            /\ UNCHANGED <<requests, pendingRequests>>

\* handleWorkerMessage that looks a response up in the pending maps of all
\* workers.
handleWorkerMessage_AnyWorker(i, m) ==
    IF i \notin workers
    THEN UNCHANGED <<info, events, requests, pendingRequests>>
    ELSE CASE m.type = "response" ->
                /\ IF \E j \in workers : m.requestId \in pendingRequests[j]
                   THEN /\ requests' = [requests EXCEPT
                               ![m.requestId] = callback(@, m)]
                        /\ pendingRequests' =
                               [j \in Ids |-> pendingRequests[j] \ {m.requestId}]
                   ELSE UNCHANGED <<requests, pendingRequests>>
                /\ UNCHANGED <<info, events>>
           [] m.type = "ready" ->
                /\ info' = [info EXCEPT ![i].status = "running"]
                /\ events' = emit(events, "ready", i)
                /\ UNCHANGED <<requests, pendingRequests>>
           [] m.type = "error" ->
                /\ handleWorkerError(i)
                /\ UNCHANGED <<requests, pendingRequests>>

\* handleWorkerMessage(i, m) (lines 957-987).
handleWorkerMessage(i, m) ==
    IF i \notin workers
    THEN UNCHANGED <<info, events, requests, pendingRequests>>
    ELSE CASE m.type = "response" ->
                /\ IF m.requestId \in pendingRequests[i]
                   THEN /\ requests' = [requests EXCEPT
                               ![m.requestId] = callback(@, m)]
                        /\ pendingRequests' = [pendingRequests EXCEPT
                               ![i] = @ \ {m.requestId}]
                   ELSE UNCHANGED <<requests, pendingRequests>>
                /\ UNCHANGED <<info, events>>
           [] m.type = "ready" ->
                /\ info' = [info EXCEPT ![i].status = "running"]
                /\ events' = emit(events, "ready", i)
                /\ UNCHANGED <<requests, pendingRequests>>
           [] m.type = "error" ->
                /\ handleWorkerError(i)
                /\ UNCHANGED <<requests, pendingRequests>>

\* The handlers of spawnWorkerProcess are attached once the call has got its
\* process; a live subprocess may then send any message at any time, 'ready'
\* once.
Attached(i) == createCall[i].pc = "returned" /\ process[i].state = "alive"

OnMessage(i, m) ==
    /\ Attached(i)
    /\ m.type = "ready" => ~process[i].ready
    /\ (m.type = "error" /\ i \in workers)
       => (events[i].error < MaxFaults /\ Ops < MaxOps)
    /\ handleWorkerMessage(i, m)
    /\ process' = [process EXCEPT ![i].ready = @ \/ m.type = "ready"]
    /\ ret' = None
    /\ UNCHANGED <<portRange, usedPorts, workers, createCall, stops>>

\* 'error' event of the process after the spawn (lines 855-858).  The
\* 'error' handler of trySpawnWorker is still attached as well; for an error
\* whose code is not ENOENT it only rejects a promise that is settled.
OnProcessError(i) ==
    /\ Attached(i)
    /\ i \in workers => (events[i].error < MaxFaults /\ Ops < MaxOps)
    /\ handleWorkerError(i)
    /\ ret' = None
    /\ UNCHANGED <<portRange, usedPorts, workers, pendingRequests,
                   createCall, process, requests, stops>>

\* ------------------------------------------------------------- stopWorker
\* stopWorker(i) up to its await, taking slot s: false for an id with no
\* entry; otherwise 'stopping', a 'shutdown' message, a 5 s timer and an
\* 'exit' listener.
stopWorker(i, s) ==
    /\ stops[s].state = "unused"
    /\ \A t \in StopIds : t < s => stops[t].state # "unused"
    /\ IF i \notin workers
       THEN /\ ret' = [op |-> "stopWorker", id |-> i, val |-> "false"]
            /\ UNCHANGED <<info, process, stops>>
       ELSE /\ Ops < MaxOps
            /\ info' = [info EXCEPT ![i].status = "stopping"]
            /\ process' = [process EXCEPT ![i].shutdowns = @ + 1]
            /\ stops' = [stops EXCEPT ![s] =
                   [worker |-> i, state |-> "waiting", timer |-> TRUE,
                    result |-> "none"]]
            /\ ret' = None
    /\ UNCHANGED <<portRange, usedPorts, workers, pendingRequests,
                   createCall, requests, events>>

\* A grace timer that kills the subprocess and leaves the call waiting.
OnStopTimeout_NoResolve(s) ==
    /\ stops[s].state = "waiting" /\ stops[s].timer
    /\ process' = [process EXCEPT ![stops[s].worker].killed = TRUE]
    /\ stops' = [stops EXCEPT ![s].timer = FALSE]
    /\ ret' = None
    /\ UNCHANGED <<portRange, usedPorts, workers, info, pendingRequests,
                   createCall, requests, events>>

\* A grace timer that lets the call go on without killing the subprocess.
OnStopTimeout_NoKill(s) ==
    /\ stops[s].state = "waiting" /\ stops[s].timer
    /\ LET i == stops[s].worker IN
       /\ cleanupWorker(i)
       /\ events' = emit(events, "stopped", i)
    /\ stops' = [stops EXCEPT ![s] = [@ EXCEPT !.state = "returned",
                     !.timer = FALSE, !.result = "true"]]
    /\ ret' = None
    /\ UNCHANGED <<portRange, createCall, process>>

\* The grace timer of stop call s fires (lines 665-668) and the call goes on
\* (lines 676-679): SIGKILL, cleanupWorker, 'worker:stopped', true.
OnStopTimeout(s) ==
    /\ stops[s].state = "waiting" /\ stops[s].timer
    /\ LET i == stops[s].worker IN
       /\ process' = [process EXCEPT ![i].killed = TRUE]
       /\ cleanupWorker(i)
       /\ events' = emit(events, "stopped", i)
    /\ stops' = [stops EXCEPT ![s] = [@ EXCEPT !.state = "returned",
                     !.timer = FALSE, !.result = "true"]]
    /\ ret' = None
    /\ UNCHANGED <<portRange, createCall>>

\* An exit after which every waiting stop call publishes 'worker:exit' too.
OnExit_ExitPerListener(i) ==
    /\ process[i].state = "alive"
    /\ createCall[i].launch = "spawned"
    /\ process' = [process EXCEPT ![i].state = "exited"]
    /\ IF createCall[i].pc = "returned"
       THEN /\ cleanupWorker(i)
            /\ LET n == Cardinality({s \in StopIds :
                        stops[s].worker = i /\ stops[s].state = "waiting"})
               IN events' = [events EXCEPT ![i].exit = @ + 1 + n,
                                           ![i].stopped = @ + n]
            /\ stops' = [s \in StopIds |->
                   IF stops[s].worker = i /\ stops[s].state = "waiting"
                   THEN [stops[s] EXCEPT !.state = "returned", !.timer = FALSE,
                                         !.result = "true"]
                   ELSE stops[s]]
       ELSE UNCHANGED <<usedPorts, info, requests, pendingRequests, workers,
                        events, stops>>
    /\ ret' = None
    /\ UNCHANGED <<portRange, createCall>>

\* An exit that lets the waiting stop calls go on with their timers running.
OnExit_KeepTimers(i) ==
    /\ process[i].state = "alive"
    /\ createCall[i].launch = "spawned"
    /\ process' = [process EXCEPT ![i].state = "exited"]
    /\ IF createCall[i].pc = "returned"
       THEN /\ cleanupWorker(i)
            /\ events' = [events EXCEPT ![i].exit = @ + 1,
                   ![i].stopped = @ + Cardinality({s \in StopIds :
                        stops[s].worker = i /\ stops[s].state = "waiting"})]
            /\ stops' = [s \in StopIds |->
                   IF stops[s].worker = i /\ stops[s].state = "waiting"
                   THEN [stops[s] EXCEPT !.state = "returned", !.result = "true"]
                   ELSE stops[s]]
       ELSE UNCHANGED <<usedPorts, info, requests, pendingRequests, workers,
                        events, stops>>
    /\ ret' = None
    /\ UNCHANGED <<portRange, createCall>>

\* The subprocess exits.  With the handlers attached: handleWorkerExit
\* (cleanupWorker, 'worker:exit'), then the 'exit' listener of every stop
\* call waiting on it clears its timer and lets the call go on
\* (cleanupWorker again, 'worker:stopped', true).
WaitingStops(i) == {s \in StopIds : stops[s].worker = i /\ stops[s].state = "waiting"}

OnExit(i) ==
    /\ process[i].state = "alive"
    /\ createCall[i].launch = "spawned"
    /\ process' = [process EXCEPT ![i].state = "exited"]
    /\ IF createCall[i].pc = "returned"
       THEN /\ cleanupWorker(i)
            /\ events' = [events EXCEPT ![i].exit = @ + 1,
                   ![i].stopped = @ + Cardinality(WaitingStops(i))]
            /\ stops' = [s \in StopIds |->
                   IF s \in WaitingStops(i)
                   THEN [stops[s] EXCEPT !.state = "returned", !.timer = FALSE,
                                         !.result = "true"]
                   ELSE stops[s]]
       ELSE UNCHANGED <<usedPorts, info, requests, pendingRequests, workers,
                        events, stops>>
    /\ ret' = None
    /\ UNCHANGED <<portRange, createCall>>

\* ------------------------------------------------------------------- spec
\* ------------------------------------------------------- host shutdown
\* Nothing else runs once process.exit has been called: the 'exit' handlers
\* run inside that call, and then the process is gone.
HostUp == host.state \in {"up", "draining"}

\* ------------------------------------------------------------ statistics
\* What a stats update carries: memoryUsage and cpuUsage, each optional; the
\* data of a 'stats' message may be absent altogether (WorkerMessage.data is
\* optional, line 565).
StatsData ==
    {[present |-> TRUE, memoryUsage |-> m, cpuUsage |-> c] :
        m \in {"none", "mem"}, c \in {"none", "cpu"}}

NoStats == [present |-> FALSE, memoryUsage |-> "none", cpuUsage |-> "none"]

\* updateWorkerStats reads stats.memoryUsage of a registered worker (line
\* 836): with no stats object that is a TypeError.
Throws(i, stats) == i \in workers /\ ~stats.present

\* updateWorkerStats (lines 826-843): for a registered worker the fields
\* supplied are stored and lastActivity is set; nothing is emitted.
updateWorkerStats(i, stats) ==
    usage' = IF i \in workers /\ stats.present
             THEN [usage EXCEPT ![i] =
                    [memoryUsage |-> IF stats.memoryUsage # "none"
                                     THEN stats.memoryUsage ELSE @.memoryUsage,
                     cpuUsage |-> IF stats.cpuUsage # "none"
                                  THEN stats.cpuUsage ELSE @.cpuUsage,
                     updates |-> @.updates + 1]]
             ELSE usage

\* A 'stats' message of subprocess i (lines 958-959, 976-978): dropped for
\* an id that is not registered, else updateWorkerStats(i, message.data); a
\* TypeError leaves the 'message' listener.  What the host does with an
\* exception nobody caught is decided outside this class.
OnStats(i, stats) ==
    /\ Attached(i)
    /\ (i \in workers /\ stats.present)
       => (usage[i].updates < MaxStats /\ Ops < MaxOps)
    /\ updateWorkerStats(i, stats)
    /\ ret' = IF Throws(i, stats)
              THEN [op |-> "message", id |-> i, val |-> "TypeError"]
              ELSE None
    /\ UNCHANGED <<portRange, usedPorts, workers, info, pendingRequests,
                   createCall, process, requests, stops, events,
                   host, hostReq, workflowId>>

\* A call of updateWorkerStats by the host's own code, which passes a stats
\* object as the signature asks.
CallUpdateWorkerStats(i, stats) ==
    /\ stats.present
    /\ i \in workers => (usage[i].updates < MaxStats /\ Ops < MaxOps)
    /\ updateWorkerStats(i, stats)
    /\ ret' = [op |-> "updateWorkerStats", id |-> i, val |-> "void"]
    /\ UNCHANGED <<portRange, usedPorts, workers, info, pendingRequests,
                   createCall, process, requests, stops, events,
                   host, hostReq, workflowId>>

\* The rest of ext, which the shutdown leaves alone.
rest == <<hostReq, usage, workflowId>>

\* The continuation of Promise.all(stopPromises) (lines 1031-1033), which
\* runs among the microtasks of the turn in which the last stop call of a
\* batch returns: process.exit(0).
Drain ==
    host' = IF /\ host.state = "draining"
               /\ \E b \in host.batches :
                     \A s \in b : stops'[s].state = "returned"
            THEN [host EXCEPT !.state = "exiting"]
            ELSE host

\* The stop slot the cleanup handler's call stopWorker(i) takes: the calls
\* are made in the order of the registry, each taking the next free slot.
FreeStops == {s \in StopIds : stops[s].state = "unused"}

Rank(x, S) == Cardinality({y \in S : y < x})

SlotOf(i) == CHOOSE s \in FreeStops : Rank(s, FreeStops) = Rank(i, workers)

\* SIGTERM or SIGINT (lines 1028-1037): cleanup calls stopWorker for every
\* key of the registry, each call running up to its await (status
\* 'stopping', 'shutdown' sent, timer and listener set), and waits for all
\* of them.  With an empty registry Promise.all resolves at once and the
\* host calls process.exit(0) in the same turn.
OnSignal ==
    /\ HostUp
    /\ Cardinality(FreeStops) >= Cardinality(workers)
    /\ Ops + Cardinality(workers) <= MaxOps
    /\ info' = [i \in Ids |-> IF i \in workers
                               THEN [info[i] EXCEPT !.status = "stopping"]
                               ELSE info[i]]
    /\ process' = [i \in Ids |-> IF i \in workers
                                  THEN [process[i] EXCEPT !.shutdowns = @ + 1]
                                  ELSE process[i]]
    /\ stops' = [s \in StopIds |->
           IF \E i \in workers : SlotOf(i) = s
           THEN [worker |-> CHOOSE i \in workers : SlotOf(i) = s,
                 state |-> "waiting", timer |-> TRUE, result |-> "none"]
           ELSE stops[s]]
    /\ host' = IF workers = {}
               THEN [host EXCEPT !.state = "exiting"]
               ELSE [state |-> "draining",
                     targets |-> host.targets \cup workers,
                     batches |-> host.batches
                                 \cup {{SlotOf(i) : i \in workers}}]
    /\ ret' = None
    /\ UNCHANGED <<portRange, usedPorts, workers, pendingRequests,
                   createCall, requests, events, rest>>

\* process.exit(0) emits 'exit', for which cleanup is registered as well
\* (line 1038): it calls stopWorker for every worker still registered, each
\* call running up to its await, and the process ends before any of them
\* goes on.
OnHostExit ==
    /\ host.state = "exiting"
    /\ info' = [i \in Ids |-> IF i \in workers
                               THEN [info[i] EXCEPT !.status = "stopping"]
                               ELSE info[i]]
    /\ process' = [i \in Ids |-> IF i \in workers
                                  THEN [process[i] EXCEPT !.shutdowns = @ + 1]
                                  ELSE process[i]]
    /\ host' = [host EXCEPT !.state = "exited"]
    /\ ret' = None
    /\ UNCHANGED <<portRange, usedPorts, workers, pendingRequests,
                   createCall, requests, stops, events, rest>>

\* The life of the workers: what creates them, changes their status and
\* removes them.
Lifecycle ==
    \/ \E i \in Ids : HostUp /\ createWorker(i) /\ UNCHANGED ext
    \/ \E i \in Ids : HostUp /\ OnSpawn(i) /\ UNCHANGED ext
    \/ \E i \in Ids : HostUp /\ OnSpawnError(i) /\ UNCHANGED ext
    \/ \E i \in Ids : HostUp /\ OnSpawnTimeout(i) /\ UNCHANGED ext
    \/ \E i \in Ids, m \in Messages :
          HostUp /\ OnMessage(i, m) /\ UNCHANGED ext
    \/ \E i \in Ids : HostUp /\ OnProcessError(i) /\ UNCHANGED ext
    \/ \E i \in Ids, s \in StopIds :
          HostUp /\ stopWorker(i, s) /\ UNCHANGED ext
    \/ \E s \in StopIds :
          HostUp /\ OnStopTimeout(s) /\ Drain /\ UNCHANGED rest
    \/ \E i \in Ids : HostUp /\ OnExit(i) /\ Drain /\ UNCHANGED rest

Next ==
    \/ Lifecycle
    \/ \E i \in Ids, r \in ReqIds :
          HostUp /\ sendRequestToWorker(i, r) /\ UNCHANGED ext
    \/ \E r \in ReqIds : HostUp /\ OnRequestTimeout(r) /\ UNCHANGED ext

Spec == Init /\ [][Next]_vars

\* What the event loop guarantees: a timer that is armed and not cleared
\* fires (setTimeout at lines 665, 699 and 949), and a process that was
\* started emits 'spawn'.  Nothing is assumed of the subprocesses: they need
\* not answer, fail or exit, and the 'error' event of a failed launch is not
\* relied upon.
Fairness ==
    /\ \A r \in ReqIds : WF_vars(HostUp /\ OnRequestTimeout(r) /\ UNCHANGED ext)
    /\ \A i \in Ids : /\ WF_vars(HostUp /\ OnSpawnTimeout(i) /\ UNCHANGED ext)
                      /\ WF_vars(HostUp /\ OnSpawn(i) /\ UNCHANGED ext)
    /\ \A s \in StopIds :
          WF_vars(HostUp /\ OnStopTimeout(s) /\ Drain /\ UNCHANGED rest)

FairSpec == Spec /\ Fairness

\* ------------------------------------------------ requests from a worker
\* Routes a worker asks for: one answered without waiting
\* ('system:health'), one whose handler waits for an import and the
\* database ('workflows:get'), one whose handler reads its argument at once
\* ('credentials:get'), and one that is no case of the switch.
Routes == {"system:health", "workflows:get", "credentials:get", "reports:get"}

\* The routes the switch of handleWorkerRequest has a case for.
Cases == {"system:health", "workflows:get", "credentials:get"}

\* The handlers that give up the turn before they return (lines 1042-1087).
Waits(route) == route = "workflows:get"

\* What the import and the database do for a handler that waits.
Outcomes == {"found", "missing", "error"}

\* A default branch that reports a route it does not know as served.
routeToSocketHandler_Success(route) ==
    [success |-> TRUE, message |-> "none"]

\* routeToSocketHandler (lines 1102-1106).
routeToSocketHandler(route) ==
    [success |-> FALSE, message |-> "Ruta no implementada"]

\* A handler that turns an exception of its body into a success.
handler_SilentSuccess(route, data, out) ==
    CASE route = "system:health" -> [success |-> TRUE, message |-> "none"]
      [] route = "workflows:get" ->
            CASE out = "found" -> [success |-> TRUE, message |-> "none"]
              [] out = "missing" ->
                    [success |-> FALSE, message |-> "Workflow no encontrado"]
              [] OTHER -> [success |-> TRUE, message |-> "none"]
      [] route = "credentials:get" ->
            IF data = "none"
            THEN [success |-> TRUE, message |-> "none"]
            ELSE [success |-> FALSE,
                  message |-> "Sistema de credenciales no implementado"]
      [] OTHER -> routeToSocketHandler(route)

\* The response object the switch of handleWorkerRequest obtains (lines
\* 737-777).  Every handler catches what its body throws and returns a
\* failure object with its own message: reading a field of an absent
\* argument (line 1186), a failed import or a rejected query (lines
\* 1076-1079).
handler(route, data, out) ==
    CASE route = "system:health" -> [success |-> TRUE, message |-> "none"]
      [] route = "workflows:get" ->
            CASE out = "found" -> [success |-> TRUE, message |-> "none"]
              [] out = "missing" ->
                    [success |-> FALSE, message |-> "Workflow no encontrado"]
              [] OTHER ->
                    [success |-> FALSE, message |-> "Error obteniendo workflow"]
      [] route = "credentials:get" ->
            IF data = "none"
            THEN [success |-> FALSE, message |-> "Error obteniendo credenciales"]
            ELSE [success |-> FALSE,
                  message |-> "Sistema de credenciales no implementado"]
      [] OTHER -> routeToSocketHandler(route)

\* worker.process.send of the response (lines 779-785).
Response(q, response) ==
    [requestId |-> q, success |-> response.success,
     message |-> response.message]

\* A 'request' message of subprocess i (lines 961-966): without a requestId
\* it is dropped; for a registered worker handleWorkerRequest runs up to
\* its first wait that gives up the turn, or to the end.  The slot keeps
\* the worker whose process handle the call holds, the response and the
\* number of 'response' messages sent over that handle.
OnRequest(i, q, hasId, route, data) ==
    /\ Attached(i)
    /\ hostReq[q].state = "unused"
    /\ \A t \in HostReqIds : t < q => hostReq[t].state # "unused"
    /\ Ops < MaxOps
    /\ hostReq' = [hostReq EXCEPT ![q] =
           IF i \notin workers \/ ~hasId
           THEN [NoHostReq EXCEPT !.state = "dropped"]
           ELSE IF Waits(route)
           THEN [worker |-> i, route |-> route, state |-> "handling",
                 response |-> NoResponse, sent |-> 0]
           ELSE [worker |-> i, route |-> route, state |-> "answered",
                 response |-> Response(q, handler(route, data, "found")),
                 sent |-> 1]]
    /\ ret' = None
    /\ UNCHANGED <<portRange, usedPorts, workers, info, pendingRequests,
                   createCall, process, requests, stops, events,
                   host, usage, workflowId>>

\* A handleWorkerRequest that ends without sending when the handler failed.
OnHandlerDone_NoSend(q, out) ==
    /\ hostReq[q].state = "handling"
    /\ hostReq' = [hostReq EXCEPT ![q] =
           [worker |-> hostReq[q].worker, route |-> hostReq[q].route,
            state |-> "answered",
            response |-> Response(q, handler(hostReq[q].route, "data", out)),
            sent |-> IF out = "error" THEN 0 ELSE 1]]
    /\ ret' = None
    /\ UNCHANGED <<portRange, usedPorts, workers, info, pendingRequests,
                   createCall, process, requests, stops, events,
                   host, usage, workflowId>>

\* The handler request q waits for returns, and handleWorkerRequest sends
\* the response over the process handle it took at its start (lines
\* 728, 779-785), registered or not by now.
OnHandlerDone(q, out) ==
    /\ hostReq[q].state = "handling"
    /\ hostReq' = [hostReq EXCEPT ![q] =
           [worker |-> hostReq[q].worker, route |-> hostReq[q].route,
            state |-> "answered",
            response |-> Response(q, handler(hostReq[q].route, "data", out)),
            sent |-> 1]]
    /\ ret' = None
    /\ UNCHANGED <<portRange, usedPorts, workers, info, pendingRequests,
                   createCall, process, requests, stops, events,
                   host, usage, workflowId>>

\* The workers and their requests to the host.  The requests the host
\* sends to the workers are left out: they change the requests, the pending
\* maps and what was sent, none of which a request from a worker reads.
RequestNext ==
    \/ Lifecycle
    \/ \E i \in Ids, q \in HostReqIds, hasId \in BOOLEAN, route \in Routes,
          data \in {"none", "data"} :
          HostUp /\ OnRequest(i, q, hasId, route, data)
    \/ \E q \in HostReqIds, out \in Outcomes : HostUp /\ OnHandlerDone(q, out)

RequestSpec == Init /\ [][RequestNext]_vars

\* The workers and their statistics; the requests are left out as in
\* RequestNext.
StatsNext ==
    \/ Lifecycle
    \/ \E i \in Ids, stats \in StatsData \cup {NoStats} :
          HostUp /\ OnStats(i, stats)
    \/ \E i \in Ids, stats \in StatsData :
          HostUp /\ CallUpdateWorkerStats(i, stats)

StatsSpec == Init /\ [][StatsNext]_vars

\* Everything a subprocess can deliver: the messages and events of
\* Lifecycle, statistics, and requests to the host.  The statistics are none
\* or both fields; the routes are one answered at once and one awaited.
ArrivalStats ==
    {NoStats, [present |-> TRUE, memoryUsage |-> "mem", cpuUsage |-> "cpu"]}

ArrivalRoutes == {"system:health", "workflows:get"}

ArrivalNext ==
    \/ Lifecycle
    \/ \E i \in Ids, stats \in ArrivalStats : HostUp /\ OnStats(i, stats)
    \/ \E i \in Ids, q \in HostReqIds, hasId \in BOOLEAN,
          route \in ArrivalRoutes :
          HostUp /\ OnRequest(i, q, hasId, route, "data")
    \/ \E q \in HostReqIds, out \in Outcomes : HostUp /\ OnHandlerDone(q, out)

ArrivalSpec == Init /\ [][ArrivalNext]_vars

\* -------------------------------------------------------------- queries
\* The WorkerInfo object of a registered worker, as a query returns it.
Entry(i) ==
    [id |-> i, workflowId |-> workflowId[i], status |-> info[i].status,
     port |-> info[i].port]

\* What a query leaves alone: everything but its result.
QueryFrame ==
    UNCHANGED <<portRange, usedPorts, workers, info, pendingRequests,
                createCall, process, requests, stops, events, ext>>

\* getWorker (lines 810-812): the info of that id, or undefined.
getWorker(i) ==
    /\ ret' = [op |-> "getWorker", id |-> i,
               val |-> IF i \in workers THEN {Entry(i)} ELSE {}]
    /\ QueryFrame

\* getActiveWorkers (lines 803-805): the info of every entry.
getActiveWorkers ==
    /\ ret' = [op |-> "getActiveWorkers", id |-> 0,
               val |-> {Entry(i) : i \in workers}]
    /\ QueryFrame

\* A listing by workflow that leaves the filter out.
getWorkersByWorkflow_NoFilter(w) ==
    /\ ret' = [op |-> "getWorkersByWorkflow", id |-> 0,
               val |-> {Entry(i) : i \in workers}]
    /\ QueryFrame

\* getWorkersByWorkflow (lines 817-821): the info of every entry whose
\* workflowId is w.
getWorkersByWorkflow(w) ==
    /\ ret' = [op |-> "getWorkersByWorkflow", id |-> 0,
               val |-> {Entry(i) : i \in {j \in workers : workflowId[j] = w}}]
    /\ QueryFrame

\* The registries the queries are applied to: no worker, one, or two, each
\* as createWorker leaves it once its subprocess has been spawned (status
\* 'running', 'worker:created' emitted), the first on the first port of
\* the range and the second on that port too or on the next, each for
\* either workflow; an entry may have reported an error since.
Registered(i, status, port) ==
    /\ info[i] = [status |-> status, port |-> port]
    /\ createCall[i] = [NoCall EXCEPT !.pc = "returned", !.launch = "spawned"]
    /\ process[i] = [NoProcess EXCEPT !.state = "alive"]
    /\ events[i] = [NoEvents EXCEPT !.created = 1,
                       !.error = IF status = "error" THEN 1 ELSE 0]

Untouched(i) ==
    /\ info[i] = NoInfo
    /\ createCall[i] = NoCall
    /\ process[i] = NoProcess
    /\ events[i] = NoEvents
    /\ workflowId[i] = "w1"

QueryInit ==
    /\ portRange \in {[start |-> PortStart, end |-> e] :
                        e \in PortStart..(PortStart + MaxPorts - 1)}
    /\ workers \in {1..n : n \in 0..MaxWorkers}
    /\ info \in [Ids -> [status : {"none", "running", "error"},
                         port : {0} \cup (portRange.start..portRange.end)]]
    /\ createCall \in [Ids -> {NoCall, [NoCall EXCEPT !.pc = "returned",
                                                      !.launch = "spawned"]}]
    /\ process \in [Ids -> {NoProcess, [NoProcess EXCEPT !.state = "alive"]}]
    /\ events \in [Ids -> {[NoEvents EXCEPT !.created = c, !.error = e] :
                              c \in 0..1, e \in 0..1}]
    /\ workflowId \in [Ids -> Workflows]
    /\ \A i \in Ids :
          IF i \in workers
          THEN /\ Registered(i, info[i].status, info[i].port)
               /\ info[i].status # "none"
               /\ info[i].port # 0
               /\ info[i].port <= portRange.start + (i - 1)
          ELSE Untouched(i)
    /\ usedPorts = {info[i].port : i \in workers}
    /\ pendingRequests = [i \in Ids |-> {}]
    /\ requests = [r \in ReqIds |-> NoRequest]
    /\ stops = [s \in StopIds |-> NoStop]
    /\ ret = None
    /\ host = NoHost
    /\ hostReq = [q \in HostReqIds |-> NoHostReq]
    /\ usage = [i \in Ids |-> NoUsage]

QueryNext ==
    \/ \E i \in Ids : getWorker(i)
    \/ getActiveWorkers
    \/ \E w \in Workflows : getWorkersByWorkflow(w)

QuerySpec == QueryInit /\ [][QueryNext]_vars

\* The program with host termination signals.
ShutdownNext ==
    \/ Next
    \/ OnSignal
    \/ OnHostExit

ShutdownSpec == Init /\ [][ShutdownNext]_vars

\* =================================================================== claims
Range == portRange.start..portRange.end

\* C1: no two workers in the registry hold the same port.
C1_UniquePorts ==
    \A i \in workers : \A j \in workers : i # j => info[i].port # info[j].port

\* The workers whose createWorker call is in progress or has succeeded and
\* which have not been finalized.
PortHolders == {a \in Ids : createCall[a].pc = "spawning" \/ a \in workers}

\* C2: once every port of the range is held by a worker whose createWorker
\* call is in progress or has succeeded and which has not been finalized, a
\* further createWorker call fails with the port-exhausted error and launches
\* no subprocess.
C2_SecondCreateFails ==
    [][\A b \in Ids :
         (/\ createCall[b].pc = "idle"
          /\ createCall'[b].pc # "idle"
          /\ \A p \in Range : \E a \in PortHolders : info[a].port = p)
         => (createCall'[b].err = "NoPorts" /\ process'[b].state = "none")]_vars

\* C3: no worker is 'running' and no createWorker call has returned before
\* the 'ready' message of that worker has arrived.
C3_RunningOnlyAfterReady ==
    \A i \in Ids :
        (info[i].status = "running" \/ createCall[i].pc = "returned")
        => process[i].ready

\* The transitions of the state machine, with the creation of the info.
LegalTransitions ==
    {<<"none", "starting">>, <<"starting", "running">>, <<"starting", "error">>,
     <<"running", "stopping">>, <<"running", "error">>, <<"stopping", "stopped">>}

\* C4: a worker's status changes only along starting->running,
\* starting->error, running->stopping, running->error, stopping->stopped; so
\* a 'stopping' worker is never 'running' again and 'error' is never left.
C4_StatusTransitions ==
    [][\A i \in Ids : info'[i].status # info[i].status
          => <<info[i].status, info'[i].status>> \in LegalTransitions]_vars

\* C5: stopWorker(id) called while an earlier stopWorker(id) waits, or after
\* it has completed, has no side effect: no such call is taken up (no further
\* timer and listener, no further 'shutdown' message, no status change).
C5_StopIdempotent ==
    [][\A i \in Ids :
         (\E t \in StopIds : stops[t].worker = i)
         => /\ \A s \in StopIds : stops'[s].worker = i => stops[s].worker = i
            /\ process'[i].shutdowns = process[i].shutdowns]_vars

\* C6: when a stopWorker(id) call completes, id is not in the registry and
\* the port that worker held is free in the pool.
C6_StopReleasesPort ==
    [][\A s \in StopIds :
         (stops[s].state = "waiting" /\ stops'[s].state = "returned")
         => /\ stops[s].worker \notin workers'
            /\ info[stops[s].worker].port \notin usedPorts']_vars

\* Every unsettled request belongs to a registered worker and is in its
\* pending table.
C7_NoneUnresolved ==
    \A r \in ReqIds : requests[r].state = "pending"
        => /\ requests[r].worker \in workers
           /\ r \in pendingRequests[requests[r].worker]

\* C7: when a worker leaves the registry, every request pending for it is
\* rejected with 'Worker stopped' and its pending table is empty; no request
\* of a worker that is not in the registry is left unsettled.
C7_FinalizationRejectsPending ==
    /\ []C7_NoneUnresolved
    /\ [][\A i \in Ids : (i \in workers /\ i \notin workers')
            => /\ pendingRequests'[i] = {}
               /\ \A r \in pendingRequests[i] :
                    /\ requests'[r].state = "rejected"
                    /\ requests'[r].result = "WorkerStopped"
                    /\ ~requests'[r].timer]_vars

C7_Witness == \E r \in ReqIds : requests[r].result = "WorkerStopped"

\* C8: at a post-start fault of a worker ('error' message or 'error' event)
\* every request in flight to it is rejected in that same step.
C8_FaultRejectsInFlight ==
    [][\A i \in Ids : events'[i].error > events[i].error
          => \A r \in pendingRequests[i] : requests'[r].state = "rejected"]_vars

\* C9: sendRequestToWorker for an id that is not registered or whose status
\* is not 'running' fails at once and changes nothing: no request is
\* registered for that id, no timer is started, no message is sent to it.
C9_NotRunningRequestFails ==
    [][\A i \in Ids : (i \notin workers \/ info[i].status # "running")
          => /\ \A r \in ReqIds : requests'[r].worker = i
                   => /\ requests[r].worker = i
                      /\ requests'[r].timer => requests[r].timer
             /\ pendingRequests'[i] \subseteq pendingRequests[i]
             /\ process'[i].sent = process[i].sent
             /\ (ret'.op = "sendRequestToWorker" /\ ret'.id = i)
                => /\ ret'.val = "NotAvailable"
                   /\ UNCHANGED <<portRange, usedPorts, workers, info,
                                  pendingRequests, createCall, process,
                                  requests, stops, events>>]_vars

C9_Witness ==
    /\ ret.op = "sendRequestToWorker"
    /\ ret.id \in workers
    /\ info[ret.id].status \in {"stopping", "error"}

\* C10: the timer of a request runs for as long as the request is unanswered,
\* and a request rejected by its timeout has left the pending table of its
\* worker for good, so that a later stopWorker finds no entry of it.
C10_TimeoutRemovesEntry ==
    \A r \in ReqIds :
        /\ requests[r].state = "pending" => requests[r].timer
        /\ requests[r].result = "Timeout"
           => /\ requests[r].state = "rejected"
              /\ ~requests[r].timer
              /\ r \notin pendingRequests[requests[r].worker]

C10_Witness ==
    \E r \in ReqIds : \E s \in StopIds :
        /\ requests[r].result = "Timeout"
        /\ stops[s].worker = requests[r].worker
        /\ stops[s].state = "returned"

\* C11: when a successful response carrying requestId r and payload d reaches
\* the worker r was sent to while r is unanswered, r resolves with exactly d;
\* a response changes no request other than the one whose requestId it
\* carries, and none of another worker.
C11_ResponseResolvesById ==
    [][\A i \in Ids : \A m \in Messages :
         (m.type = "response" /\ OnMessage(i, m))
         => /\ (m.success /\ requests[m.requestId].state = "pending"
                          /\ requests[m.requestId].worker = i)
               => /\ requests'[m.requestId].state = "resolved"
                  /\ requests'[m.requestId].result = m.data
            /\ \A r \in ReqIds :
                 (r # m.requestId \/ requests[r].worker # i)
                 => requests'[r] = requests[r]]_vars

C11_Witness ==
    \E r \in ReqIds : \E q \in ReqIds :
        /\ requests[r].state = "resolved" /\ requests[r].result \in Payloads
        /\ requests[q].state = "pending"
        /\ requests[q].worker = requests[r].worker
        /\ info[requests[r].worker].status = "running"

\* A promise that has been resolved or rejected.
Settled(r) == requests[r].state \in {"resolved", "rejected"}

\* C12: a request is in the pending table of its worker, with its timer
\* running, exactly while it is unsettled; once it is settled its outcome
\* never changes, its timer is off and it is in no pending table, so that a
\* duplicate or late response, and a timer after finalization, change nothing.
C12_SettledExactlyOnce ==
    /\ [](\A r \in ReqIds : \A i \in Ids :
            /\ r \in pendingRequests[i]
               <=> (requests[r].state = "pending" /\ requests[r].worker = i)
            /\ requests[r].timer <=> requests[r].state = "pending")
    /\ [][\A r \in ReqIds : Settled(r)
            => /\ requests'[r] = requests[r]
               /\ \A i \in Ids : r \notin pendingRequests'[i]]_vars

C12_Witness ==
    \E r \in ReqIds : \E q \in ReqIds :
        /\ requests[r].state = "resolved"
        /\ requests[q].result = "Timeout"
        /\ requests[q].worker = requests[r].worker
        /\ requests[r].worker \in workers
        /\ Attached(requests[r].worker)

\* C13: every accepted sendRequestToWorker call is eventually resolved or
\* rejected, whether or not the subprocess ever answers or exits.
C13_RequestsSettle ==
    \A r \in ReqIds : (requests[r].state = "pending") ~> Settled(r)

C13_Witness ==
    \E r \in ReqIds :
        /\ requests[r].result = "Timeout"
        /\ process[requests[r].worker].state = "alive"
        /\ requests[r].worker \in workers

\* C14: the call fails in the step in which the last of the NumCommands
\* candidates fails with executable-not-found, not before, and it fails with
\* the SpawnExhausted error (no valid launch command).
C14_ExhaustedAfterAllCandidates ==
    [][\A i \in Ids :
         (/\ createCall[i].launch = "enoent"
          /\ createCall[i].cur = NumCommands - 1
          /\ createCall'[i].launch = "failed")
         => /\ createCall[i].pc = "spawning"
            /\ createCall'[i].pc = "threw"
            /\ createCall'[i].err = "SpawnExhausted"]_vars

C16_CreateTerminates ==
    /\ \A i \in Ids : (createCall[i].pc = "spawning")
                          ~> (createCall[i].pc \in {"returned", "threw"})
    /\ [](\A i \in Ids :
            (createCall[i].pc = "threw" /\ createCall[i].launch \in Launches)
            => createCall[i].err = "Timeout")

C16_Witness ==
    \E i \in Ids :
        /\ createCall[i].pc = "threw" /\ createCall[i].err = "Timeout"
        /\ createCall[i].cur = 0
        /\ createCall[i].launch \in {"enoent", "eother"}

\* C17: the step in which a createWorker call fails delivers an error and
\* leaves the registry and the set of reserved ports as they were; the failed
\* id is not registered and no 'worker:created' was published for it.
C17_FailedCreateLeavesNoTrace ==
    [][\A i \in Ids :
         (createCall[i].pc # "threw" /\ createCall'[i].pc = "threw")
         => /\ createCall'[i].err # "none"
            /\ i \notin workers' /\ workers' = workers
            /\ events'[i].created = 0
            /\ usedPorts' = usedPorts]_vars

\* C18: a stopWorker call that waits always completes; when its grace timer
\* expires with the subprocess still running, that step sends SIGKILL, leaves
\* the worker out of the registry with status 'stopped', and the call
\* returns true.
C18_GraceExpiryKills ==
    /\ \A s \in StopIds : (stops[s].state = "waiting")
                            ~> (stops[s].state = "returned")
    /\ [][\A s \in StopIds :
            (/\ stops[s].timer /\ ~stops'[s].timer
             /\ process'[stops[s].worker].state = "alive")
            => /\ process'[stops[s].worker].killed
               /\ stops[s].worker \notin workers'
               /\ info'[stops[s].worker].status = "stopped"
               /\ stops'[s].state = "returned"
               /\ stops'[s].result = "true"]_vars

C18_Witness ==
    \E s \in StopIds :
        /\ stops[s].state = "returned" /\ stops[s].result = "true"
        /\ process[stops[s].worker].state = "alive"
        /\ process[stops[s].worker].killed
        /\ info[stops[s].worker].status = "stopped"

\* C19: when the subprocess of a worker being stopped exits, that step
\* finalizes the worker as stopped and completes the waiting calls; once a
\* subprocess has exited no grace timer runs for it and no kill is sent to it.
C19_ExitCancelsGraceTimer ==
    /\ [](\A s \in StopIds :
            (stops[s].state # "unused"
             /\ process[stops[s].worker].state = "exited")
            => (~stops[s].timer /\ stops[s].state = "returned"))
    /\ [][\A i \in Ids :
            /\ (process[i].state = "alive" /\ process'[i].state = "exited"
                                           /\ WaitingStops(i) # {})
               => (info'[i].status = "stopped" /\ i \notin workers')
            /\ (process'[i].state = "exited" /\ ~process[i].killed)
               => ~process'[i].killed]_vars

C19_Witness ==
    \E s \in StopIds :
        /\ stops[s].state = "returned"
        /\ process[stops[s].worker].state = "exited"
        /\ ~process[stops[s].worker].killed
        /\ info[stops[s].worker].status = "stopped"

\* C20: for every worker createWorker has returned, 'worker:exit' has been
\* published exactly once if its subprocess has exited and not at all
\* otherwise, however stop calls, grace timers, kills and the exit interleave;
\* no 'worker:exit' is published for an id createWorker has not returned.
C20_OneExitEvent ==
    \A i \in Ids :
        /\ events[i].exit <= 1
        /\ createCall[i].pc = "returned"
           => (events[i].exit = 1 <=> process[i].state = "exited")
        /\ createCall[i].pc # "returned" => events[i].exit = 0

C20_Witness ==
    \E i \in Ids :
        /\ events[i].exit = 1
        /\ process[i].killed
        /\ \A s \in StopIds : stops[s].worker = i /\ stops[s].state = "returned"

\* C21: the step that removes a worker from the registry, which is the step
\* that returns its port to the pool (cleanupWorker does both), is taken only
\* when the subprocess of that worker has exited.
C21_RemovedOnlyAfterExit ==
    [][\A i \in workers :
         i \notin workers' => process'[i].state = "exited"]_vars

\* C22: the step that takes a worker out of the registry also releases its
\* port, rejects its pending requests, empties its table and marks it
\* 'stopped'; a worker that has been finalized is never registered again, and
\* a later exit, grace timer or stop call for it leaves the registry, the
\* statuses, the reserved ports and the requests as they are.
C22_FinalizedOnce ==
    [][\A i \in Ids :
         /\ (i \in workers /\ i \notin workers')
            => /\ info[i].port \notin usedPorts'
               /\ info'[i].status = "stopped"
               /\ pendingRequests'[i] = {}
               /\ \A r \in pendingRequests[i] : requests'[r].state = "rejected"
         /\ (i \notin workers /\ info[i].status = "stopped")
            => /\ i \notin workers'
               /\ info'[i] = info[i]
               /\ (process'[i] # process[i]
                   \/ \E s \in StopIds : stops[s].worker = i /\ stops'[s] # stops[s])
                  => UNCHANGED <<workers, info, usedPorts, requests,
                                 pendingRequests>>]_vars

C22_Witness ==
    \E i \in Ids : \E j \in workers :
        /\ info[i].status = "stopped" /\ process[i].state = "exited"
        /\ process[i].killed
        /\ \A s \in StopIds : stops[s].worker = i /\ stops[s].state = "returned"
        /\ info[j].port = info[i].port /\ info[j].port \in usedPorts

\* C23: every registered worker whose status is 'error' eventually leaves
\* the registry.
C23_ErrorWorkersRemoved ==
    \A i \in Ids : (i \in workers /\ info[i].status = "error")
                      ~> (i \notin workers)

\* C24: a termination signal takes up a stop call for every worker of the
\* registry, and the host calls process.exit only when every stop call a
\* signal took up has returned and every worker it was taken up for has
\* left the registry.
C24_ExitAfterAllStops ==
    [][/\ host'.batches # host.batches
          => \A i \in workers :
                \E s \in FreeStops : /\ stops'[s].worker = i
                                     /\ stops'[s].state = "waiting"
                                     /\ s \in UNION host'.batches
       /\ (HostUp /\ host'.state = "exiting")
          => /\ \A s \in UNION host'.batches : stops'[s].state = "returned"
             /\ \A i \in host'.targets : i \notin workers']_vars
\* C25: a request with a requestId from a registered worker for a route that
\* is no case of the switch is answered in the turn in which it arrives, with
\* that requestId, success=false and the not-implemented message; no such
\* request is ever waiting or answered with success.
C25_UnknownRouteRefused ==
    /\ [](\A q \in HostReqIds :
            (hostReq[q].state # "unused" /\ hostReq[q].route \notin Cases
             /\ hostReq[q].state # "dropped")
            => /\ hostReq[q].state = "answered"
               /\ hostReq[q].response =
                     [requestId |-> q, success |-> FALSE,
                      message |-> "Ruta no implementada"])
    /\ [][\A i \in workers, q \in HostReqIds, route \in Routes \ Cases,
            data \in {"none", "data"} :
            OnRequest(i, q, TRUE, route, data)
            => /\ hostReq'[q].state = "answered"
               /\ hostReq'[q].route = route
               /\ hostReq'[q].response.requestId = q
               /\ ~hostReq'[q].response.success]_vars

C25_Witness ==
    \E q \in HostReqIds : \E i \in workers :
        /\ hostReq[q].state = "answered" /\ hostReq[q].route \notin Cases
        /\ hostReq[q].response.requestId = q
        /\ ~hostReq[q].response.success
        /\ info[i].status = "running"

\* C26: when the body of a route handler throws (the argument is absent) or
\* what it waits for fails, the step sends a response with the requestId of
\* the request, success=false and an error message, leaves the registry and
\* every status as they are, and raises nothing.
C26_HandlerFailureAnswered ==
    [][/\ \A i \in workers, q \in HostReqIds :
            OnRequest(i, q, TRUE, "credentials:get", "none")
            => /\ hostReq'[q].state = "answered"
               /\ hostReq'[q].response =
                     [requestId |-> q, success |-> FALSE,
                      message |-> "Error obteniendo credenciales"]
               /\ UNCHANGED <<workers, info, usedPorts, events>>
               /\ ret' = None
       /\ \A q \in HostReqIds :
            OnHandlerDone(q, "error")
            => /\ hostReq'[q].state = "answered"
               /\ hostReq'[q].response =
                     [requestId |-> q, success |-> FALSE,
                      message |-> "Error obteniendo workflow"]
               /\ UNCHANGED <<workers, info, usedPorts, events>>
               /\ ret' = None]_vars

C26_Witness ==
    \E q \in HostReqIds : \E i \in workers :
        /\ hostReq[q].state = "answered"
        /\ hostReq[q].route = "workflows:get"
        /\ hostReq[q].response =
              [requestId |-> q, success |-> FALSE,
               message |-> "Error obteniendo workflow"]
        /\ info[i].status = "running"
\* C27: a 'stats' message and an updateWorkerStats call raise nothing, for
\* an id that is not registered and for a message without data too, and
\* change nothing but the memoryUsage and cpuUsage fields that were supplied
\* and the lastActivity of that one worker.
C27_StatsNeverRaise ==
    [][/\ \A i \in Ids, stats \in StatsData \cup {NoStats} :
            OnStats(i, stats)
            => /\ ret' = None
               /\ \A j \in Ids \ {i} : usage'[j] = usage[j]
               /\ stats.memoryUsage = "none"
                  => usage'[i].memoryUsage = usage[i].memoryUsage
               /\ stats.cpuUsage = "none"
                  => usage'[i].cpuUsage = usage[i].cpuUsage
               /\ UNCHANGED <<workers, info, usedPorts, pendingRequests,
                              requests, events>>
       /\ \A i \in Ids, stats \in StatsData :
            CallUpdateWorkerStats(i, stats)
            => /\ ret'.val = "void"
               /\ \A j \in Ids \ {i} : usage'[j] = usage[j]
               /\ stats.memoryUsage = "none"
                  => usage'[i].memoryUsage = usage[i].memoryUsage
               /\ stats.cpuUsage = "none"
                  => usage'[i].cpuUsage = usage[i].cpuUsage
               /\ UNCHANGED <<workers, info, usedPorts, pendingRequests,
                              requests, events>>]_vars

\* C28: every stats update applied to a registered worker publishes one
\* 'worker:stats-updated' event for that worker.
C28_StatsUpdatePublished ==
    [][\A i \in Ids :
         usage'[i] # usage[i]
         => events'[i].statsUpdated = events[i].statsUpdated + 1]_vars
\* C29: getAvailablePort is the lowest port of the range that is not in
\* usedPorts, and null exactly when every port of the range is in usedPorts;
\* createWorker takes that port, and throws the no-ports error exactly when
\* there is none.
C29_LowestFreePort ==
    /\ [](IF FreePorts = {}
          THEN getAvailablePort = 0
          ELSE /\ getAvailablePort \in FreePorts
               /\ \A p \in FreePorts : getAvailablePort <= p)
    /\ [][\A i \in Ids :
            createWorker(i)
            => IF \A p \in portRange.start..portRange.end : p \in usedPorts
               THEN /\ createCall'[i].err = "NoPorts"
                    /\ ret' = [op |-> "createWorker", id |-> i, val |-> "NoPorts"]
                    /\ info'[i] = info[i]
               ELSE /\ createCall'[i].err # "NoPorts"
                    /\ info'[i].port \in FreePorts
                    /\ \A p \in FreePorts : info'[i].port <= p]_vars

C29_Witness ==
    \E i \in Ids :
        /\ createCall[i].pc = "spawning"
        /\ info[i].port = PortStart + 1
        /\ PortStart \in usedPorts
        /\ PortStart + 1 \notin usedPorts
\* C30: getWorker, getActiveWorkers and getWorkersByWorkflow return the
\* entries of the registry as they are (the one with that id or nothing, all
\* of them, those of that workflow) and change neither registry, statuses,
\* port pool, pending requests nor the events emitted.
C30_QueriesArePure ==
    [][/\ \A i \in Ids :
            getWorker(i)
            => /\ \A e \in ret'.val : e.id = i /\ i \in workers
               /\ i \in workers
                  => ret'.val = {[id |-> i, workflowId |-> workflowId[i],
                                  status |-> info[i].status,
                                  port |-> info[i].port]}
       /\ getActiveWorkers
            => /\ {e.id : e \in ret'.val} = workers
               /\ Cardinality(ret'.val) = Cardinality(workers)
               /\ \A e \in ret'.val :
                     /\ e.workflowId = workflowId[e.id]
                     /\ e.status = info[e.id].status
                     /\ e.port = info[e.id].port
       /\ \A w \in Workflows :
            getWorkersByWorkflow(w)
            => /\ {e.id : e \in ret'.val} = {j \in workers : workflowId[j] = w}
               /\ \A e \in ret'.val :
                     /\ e.workflowId = w
                     /\ e.status = info[e.id].status
                     /\ e.port = info[e.id].port
       /\ ret'.op \in {"getWorker", "getActiveWorkers", "getWorkersByWorkflow"}
            => UNCHANGED <<workers, info, workflowId, usage, usedPorts,
                           pendingRequests, requests, events>>]_vars

C30_Witness ==
    /\ ret.op = "getWorkersByWorkflow"
    /\ ret.val # {}
    /\ Cardinality(ret.val) < Cardinality(workers)
    /\ \E i \in workers : info[i].status = "error"
\* C31: 'worker:created' of a worker is published before any 'worker:ready'
\* of it, and once the worker has been finalized (its entry removed, status
\* 'stopped') no 'worker:ready' and no 'worker:error' is published for it.
C31_EventOrder ==
    /\ [](\A i \in Ids : events[i].ready > 0 => events[i].created > 0)
    /\ [][\A i \in Ids :
            /\ events'[i].ready > events[i].ready => events[i].created > 0
            /\ (i \notin workers /\ info[i].status = "stopped")
               => /\ events'[i].ready = events[i].ready
                  /\ events'[i].error = events[i].error]_vars

C31_Witness ==
    \E i \in Ids :
        /\ i \notin workers /\ info[i].status = "stopped"
        /\ events[i].created = 1
        /\ process[i].state = "alive" /\ process[i].ready
        /\ events[i].ready = 0
\* C32: a stopWorker call on a registered worker waits with its grace timer
\* armed, returns in the step in which that timer fires if it has not
\* returned before, and so always returns, whatever the subprocess does.
C32_StopReturns ==
    /\ [](\A s \in StopIds : stops[s].state = "waiting" => stops[s].timer)
    /\ [][\A s \in StopIds :
            /\ (stops[s].state = "unused" /\ stops'[s].state # "unused")
               => (stops'[s].state = "waiting" /\ stops'[s].worker \in workers)
            /\ (stops[s].timer /\ ~stops'[s].timer)
               => stops'[s].state = "returned"]_vars
    /\ \A s \in StopIds :
          (stops[s].state = "waiting" /\ stops[s].timer)
             ~> (stops[s].state = "returned" /\ stops[s].result = "true")

C32_Witness ==
    \E s \in StopIds :
        /\ stops[s].state = "returned" /\ ~stops[s].timer
        /\ process[stops[s].worker].state = "alive"
        /\ process[stops[s].worker].shutdowns > 0
        /\ events[stops[s].worker].exit = 0
        /\ events[stops[s].worker].stopped = 1
\* C33: the reserved ports are exactly the ports of the registered workers.
C33_PortsMatchRegistry ==
    usedPorts = {info[i].port : i \in workers}
C35_ExitLeavesNothing ==
    host.state = "exited"
    => /\ workers = {}
       /\ \A i \in Ids : process[i].state = "alive" => process[i].killed
\* C36: a 'request' message with a requestId from a registered worker is
\* taken up whatever its route; when its handler has finished, with success,
\* with a failure or with an exception, exactly one 'response' with that
\* requestId has been sent over the channel of that worker, and none before
\* and none after.
C36_OneResponsePerRequest ==
    /\ [](\A q \in HostReqIds :
            /\ hostReq[q].state = "handling" => hostReq[q].sent = 0
            /\ hostReq[q].state = "answered"
               => /\ hostReq[q].sent = 1
                  /\ hostReq[q].response.requestId = q
                  /\ hostReq[q].response.message # "none"
                     \/ hostReq[q].response.success)
    /\ [][/\ \A i \in workers, q \in HostReqIds, route \in Routes,
              data \in {"none", "data"} :
              OnRequest(i, q, TRUE, route, data)
              => /\ hostReq'[q].worker = i
                 /\ hostReq'[q].state = IF Waits(route) THEN "handling"
                                        ELSE "answered"
          /\ \A r \in HostReqIds :
              /\ hostReq[r].state = "handling"
                 => /\ hostReq'[r].state \in {"handling", "answered"}
                    /\ hostReq'[r].worker = hostReq[r].worker
              /\ hostReq[r].state = "answered" => hostReq'[r] = hostReq[r]
              /\ hostReq'[r].sent >= hostReq[r].sent]_vars

C36_Witness ==
    \E q \in HostReqIds :
        /\ hostReq[q].state = "answered" /\ hostReq[q].sent = 1
        /\ hostReq[q].route = "workflows:get"
        /\ hostReq[q].response.success
        /\ hostReq[q].worker \in workers
\* C37: a message delivered on the channel of worker i is matched against
\* the pending requests of i only: a response whose requestId is not pending
\* on i settles and removes nothing, and no message changes the status, the
\* stats, the events, the pending map or a request of another worker.
C37_ChannelIsolation ==
    [][\A i \in Ids, m \in Messages :
         OnMessage(i, m)
         => /\ (m.type = "response" /\ m.requestId \notin pendingRequests[i])
               => UNCHANGED <<requests, pendingRequests>>
            /\ \A j \in Ids \ {i} :
                 /\ info'[j] = info[j]
                 /\ usage'[j] = usage[j]
                 /\ events'[j] = events[j]
                 /\ pendingRequests'[j] = pendingRequests[j]
                 /\ \A r \in ReqIds :
                      requests[r].worker = j => requests'[r] = requests[r]]_vars

C37_Witness ==
    \E r \in ReqIds : \E i \in workers :
        /\ requests[r].state = "pending"
        /\ requests[r].worker # i /\ r \in pendingRequests[requests[r].worker]
        /\ Attached(i) /\ Attached(requests[r].worker)
        /\ process[i].ready /\ events[i].ready = 1
Finalized(i) == i \notin workers /\ info[i].status = "stopped"

Untouched_Orchestrator ==
    /\ UNCHANGED <<portRange, usedPorts, workers, info, pendingRequests,
                   createCall, requests, stops, events>>
    /\ UNCHANGED <<host, usage, workflowId>>
    /\ ret' = None

\* C38: a message (ready, response, stats, request, error) or an 'error'
\* event arriving from the subprocess of a finalized worker leaves the
\* orchestrator's state as it was, emits no 'worker:ready' and no
\* 'worker:error', and sends no response: the request is dropped.
C38_LateArrivalsIgnored ==
    [][\A i \in Ids :
         Finalized(i)
         => /\ \A m \in Messages :
                 (OnMessage(i, m) /\ UNCHANGED ext)
                 => (Untouched_Orchestrator /\ UNCHANGED hostReq)
            /\ (OnProcessError(i) /\ UNCHANGED ext)
               => (Untouched_Orchestrator /\ UNCHANGED hostReq)
            /\ \A stats \in ArrivalStats :
                 OnStats(i, stats)
                 => (Untouched_Orchestrator /\ UNCHANGED hostReq)
            /\ \A q \in HostReqIds, hasId \in BOOLEAN, route \in ArrivalRoutes :
                 OnRequest(i, q, hasId, route, "data")
                 => /\ Untouched_Orchestrator
                    /\ hostReq'[q].state = "dropped" /\ hostReq'[q].sent = 0
                    /\ \A t \in HostReqIds \ {q} : hostReq'[t] = hostReq[t]]_vars

C38_Witness ==
    \E i \in Ids :
        /\ Finalized(i) /\ process[i].state = "alive"
        /\ process[i].ready /\ events[i].ready = 0 /\ events[i].error = 0
        /\ usage[i] = NoUsage
        /\ \E q \in HostReqIds : hostReq[q].state = "dropped"
====
